---- MODULE Spec2Model ----
(***************************************************************************)
(* search-libraries: a query-parameter builder (ApiClientBuilder /         *)
(* ApiClient), the registry adapters built on it (library: search_crates,  *)
(* search_npm; binary: search_crates, search_npm, search_jsdelivr,         *)
(* search_docker), the JSON file writer and the binary's main.             *)
(*                                                                         *)
(* Text is modelled as a sequence of one-character strings, so that        *)
(* number formatting, JSON pretty-printing and JSON parsing are real       *)
(* conversions.  JSON numbers are integers.                                *)
(***************************************************************************)
EXTENDS Integers, Sequences, FiniteSets

(***************************************************************************)
(* Bounds of the model.                                                    *)
(***************************************************************************)
\* number of set_param calls followed on one builder
MaxCalls == 3
\* largest number of bytes a failing write_all leaves behind that is tried
MaxPartial == 1

(***************************************************************************)
(* Characters and text.                                                    *)
(***************************************************************************)
QUOTE == "\""
BSLASH == "\\"
NL == "\n"
SP == " "

Digits == <<"0", "1", "2", "3", "4", "5", "6", "7", "8", "9">>

IsDigit(c) == \E i \in 1..10 : Digits[i] = c

DigitVal(c) == (CHOOSE i \in 1..10 : Digits[i] = c) - 1

\* The characters of keys, in byte order (the order of a BTreeMap<String,_>).
CharOrder ==
    <<"-", "0", "1", "2", "3", "4", "5", "6", "7", "8", "9", "A", "B", "C",
      "D", "E", "F", "G", "H", "I", "J", "K", "L", "M", "N", "O", "P", "Q",
      "R", "S", "T", "U", "V", "W", "X", "Y", "Z", "_", "a", "b", "c", "d",
      "e", "f", "g", "h", "i", "j", "k", "l", "m", "n", "o", "p", "q", "r",
      "s", "t", "u", "v", "w", "x", "y", "z">>

CharCode(c) == CHOOSE i \in 1..Len(CharOrder) : CharOrder[i] = c

RECURSIVE TextLess(_, _)
TextLess(a, b) ==
    IF b = <<>> THEN FALSE
    ELSE IF a = <<>> THEN TRUE
    ELSE IF Head(a) = Head(b) THEN TextLess(Tail(a), Tail(b))
    ELSE CharCode(Head(a)) < CharCode(Head(b))

\* i32::to_string / u32::to_string
RECURSIVE NatToString(_)
NatToString(n) ==
    IF n < 10 THEN <<Digits[n + 1]>>
    ELSE NatToString(n \div 10) \o <<Digits[(n % 10) + 1]>>

to_string(n) == IF n < 0 THEN <<"-">> \o NatToString(-n) ELSE NatToString(n)

(***************************************************************************)
(* serde_json::Value                                                       *)
(***************************************************************************)
JNull == [t |-> "null"]
JBool(b) == [t |-> "bool", b |-> b]
JNum(n) == [t |-> "num", n |-> n]
JStr(s) == [t |-> "str", s |-> s]
JArr(a) == [t |-> "arr", a |-> a]
\* m: a function from keys (texts) to values
JObj(m) == [t |-> "obj", m |-> m]

EmptyMap == [k \in {} |-> JNull]

\* Map::insert: a key already present takes the new value
MapInsert(m, k, v) == [x \in (DOMAIN m) \cup {k} |-> IF x = k THEN v ELSE m[x]]

(***************************************************************************)
(* serde_json::to_string_pretty (PrettyFormatter, two-space indent)        *)
(***************************************************************************)
Indent(d) == [i \in 1..(2 * d) |-> SP]

EscapeChar(c) ==
    IF c = QUOTE THEN <<BSLASH, QUOTE>>
    ELSE IF c = BSLASH THEN <<BSLASH, BSLASH>>
    ELSE IF c = NL THEN <<BSLASH, "n">>
    ELSE <<c>>

RECURSIVE Escape(_)
Escape(s) == IF s = <<>> THEN <<>> ELSE EscapeChar(Head(s)) \o Escape(Tail(s))

Quoted(s) == <<QUOTE>> \o Escape(s) \o <<QUOTE>>

MinKey(S) == CHOOSE k \in S : \A j \in S : j = k \/ TextLess(k, j)

RECURSIVE SortedKeys(_)
SortedKeys(S) ==
    IF S = {} THEN <<>> ELSE <<MinKey(S)>> \o SortedKeys(S \ {MinKey(S)})

RECURSIVE Pretty(_, _)
RECURSIVE PrettyElems(_, _)
RECURSIVE PrettyMembers(_, _, _)
Pretty(v, d) ==
    CASE v.t = "null" -> <<"n", "u", "l", "l">>
      [] v.t = "bool" -> IF v.b THEN <<"t", "r", "u", "e">>
                         ELSE <<"f", "a", "l", "s", "e">>
      [] v.t = "num" -> to_string(v.n)
      [] v.t = "str" -> Quoted(v.s)
      [] v.t = "arr" ->
            IF v.a = <<>> THEN <<"[", "]">>
            ELSE <<"[", NL>> \o PrettyElems(v.a, d + 1)
                 \o <<NL>> \o Indent(d) \o <<"]">>
      [] v.t = "obj" ->
            IF DOMAIN v.m = {} THEN <<"{", "}">>
            ELSE <<"{", NL>> \o PrettyMembers(v.m, SortedKeys(DOMAIN v.m), d + 1)
                 \o <<NL>> \o Indent(d) \o <<"}">>

PrettyElems(a, d) ==
    Indent(d) \o Pretty(Head(a), d)
    \o (IF Len(a) = 1 THEN <<>> ELSE <<",", NL>> \o PrettyElems(Tail(a), d))

PrettyMembers(m, keys, d) ==
    Indent(d) \o Quoted(Head(keys)) \o <<":", SP>> \o Pretty(m[Head(keys)], d)
    \o (IF Len(keys) = 1 THEN <<>>
        ELSE <<",", NL>> \o PrettyMembers(m, Tail(keys), d))

to_string_pretty(v) == Pretty(v, 0)

(***************************************************************************)
(* The JSON parser behind Response::json (serde_json::from_slice).         *)
(* A parse step returns [ok, v, pos]: pos is the first unread position.    *)
(***************************************************************************)
ParseFail == [ok |-> FALSE, v |-> JNull, pos |-> 0]

ParseOk(v, pos) == [ok |-> TRUE, v |-> v, pos |-> pos]

IsWs(c) == c = SP \/ c = NL

RECURSIVE SkipWs(_, _)
SkipWs(s, i) == IF i <= Len(s) /\ IsWs(s[i]) THEN SkipWs(s, i + 1) ELSE i

\* does text s hold the word w at position i
HasWord(s, i, w) ==
    /\ i + Len(w) - 1 <= Len(s)
    /\ \A k \in 1..Len(w) : s[i + k - 1] = w[k]

RECURSIVE ParseDigits(_, _, _)
ParseDigits(s, i, acc) ==
    IF i <= Len(s) /\ IsDigit(s[i])
    THEN ParseDigits(s, i + 1, 10 * acc + DigitVal(s[i]))
    ELSE [n |-> acc, pos |-> i]

\* "0", or a non-zero digit followed by digits; i is at the first digit
ParseNat(s, i) ==
    IF i > Len(s) \/ ~IsDigit(s[i]) THEN ParseFail
    ELSE IF s[i] = "0" THEN ParseOk(JNum(0), i + 1)
    ELSE LET r == ParseDigits(s, i, 0) IN ParseOk(JNum(r.n), r.pos)

ParseNumber(s, i) ==
    IF s[i] = "-"
    THEN LET r == ParseNat(s, i + 1)
         IN IF r.ok THEN ParseOk(JNum(-(r.v.n)), r.pos) ELSE ParseFail
    ELSE ParseNat(s, i)

\* i is just after the opening quote; acc is the text read so far
RECURSIVE ParseStringFrom(_, _, _)
ParseStringFrom(s, i, acc) ==
    IF i > Len(s) THEN ParseFail
    ELSE IF s[i] = QUOTE THEN ParseOk(JStr(acc), i + 1)
    ELSE IF s[i] = NL THEN ParseFail
    ELSE IF s[i] = BSLASH
         THEN IF i + 1 > Len(s) THEN ParseFail
              ELSE IF s[i + 1] \in {QUOTE, BSLASH, "/"}
                   THEN ParseStringFrom(s, i + 2, Append(acc, s[i + 1]))
              ELSE IF s[i + 1] = "n"
                   THEN ParseStringFrom(s, i + 2, Append(acc, NL))
              ELSE ParseFail
    ELSE ParseStringFrom(s, i + 1, Append(acc, s[i]))

RECURSIVE ParseValue(_, _)
RECURSIVE ParseElems(_, _, _)
RECURSIVE ParseMembers(_, _, _)
ParseValue(s, i0) ==
    LET i == SkipWs(s, i0) IN
    IF i > Len(s) THEN ParseFail
    ELSE IF s[i] = "n"
         THEN IF HasWord(s, i, <<"n", "u", "l", "l">>)
              THEN ParseOk(JNull, i + 4) ELSE ParseFail
    ELSE IF s[i] = "t"
         THEN IF HasWord(s, i, <<"t", "r", "u", "e">>)
              THEN ParseOk(JBool(TRUE), i + 4) ELSE ParseFail
    ELSE IF s[i] = "f"
         THEN IF HasWord(s, i, <<"f", "a", "l", "s", "e">>)
              THEN ParseOk(JBool(FALSE), i + 5) ELSE ParseFail
    ELSE IF s[i] = QUOTE THEN ParseStringFrom(s, i + 1, <<>>)
    ELSE IF s[i] = "-" \/ IsDigit(s[i]) THEN ParseNumber(s, i)
    ELSE IF s[i] = "["
         THEN LET j == SkipWs(s, i + 1)
              IN IF j <= Len(s) /\ s[j] = "]" THEN ParseOk(JArr(<<>>), j + 1)
                 ELSE ParseElems(s, j, <<>>)
    ELSE IF s[i] = "{"
         THEN LET j == SkipWs(s, i + 1)
              IN IF j <= Len(s) /\ s[j] = "}" THEN ParseOk(JObj(EmptyMap), j + 1)
                 ELSE ParseMembers(s, j, EmptyMap)
    ELSE ParseFail

\* i is where an element must start; acc holds the elements read so far
ParseElems(s, i, acc) ==
    LET r == ParseValue(s, i) IN
    IF ~r.ok THEN ParseFail
    ELSE LET j == SkipWs(s, r.pos)
         IN IF j > Len(s) THEN ParseFail
            ELSE IF s[j] = "," THEN ParseElems(s, j + 1, Append(acc, r.v))
            ELSE IF s[j] = "]" THEN ParseOk(JArr(Append(acc, r.v)), j + 1)
            ELSE ParseFail

\* i is where a key must start; acc holds the members read so far
ParseMembers(s, i0, acc) ==
    LET i == SkipWs(s, i0) IN
    IF i > Len(s) \/ s[i] # QUOTE THEN ParseFail
    ELSE LET k == ParseStringFrom(s, i + 1, <<>>) IN
         IF ~k.ok THEN ParseFail
         ELSE LET c == SkipWs(s, k.pos) IN
              IF c > Len(s) \/ s[c] # ":" THEN ParseFail
              ELSE LET r == ParseValue(s, c + 1) IN
                   IF ~r.ok THEN ParseFail
                   ELSE LET j == SkipWs(s, r.pos)
                            m == MapInsert(acc, k.v.s, r.v)
                        IN IF j > Len(s) THEN ParseFail
                           ELSE IF s[j] = "," THEN ParseMembers(s, j + 1, m)
                           ELSE IF s[j] = "}" THEN ParseOk(JObj(m), j + 1)
                           ELSE ParseFail

\* the whole text is one JSON value: [ok, v]
from_slice(s) ==
    LET r == ParseValue(s, 1) IN
    IF r.ok /\ SkipWs(s, r.pos) > Len(s)
    THEN [ok |-> TRUE, v |-> r.v]
    ELSE [ok |-> FALSE, v |-> JNull]

(***************************************************************************)
(* Option and Result                                                       *)
(***************************************************************************)
None == [some |-> FALSE]
Some(v) == [some |-> TRUE, v |-> v]
unwrap_or(o, d) == IF o.some THEN o.v ELSE d

Ok(v) == [ok |-> TRUE, v |-> v]
Err(e) == [ok |-> FALSE, e |-> e]

(***************************************************************************)
(* The string literals of the source.                                      *)
(***************************************************************************)
\* my_crawler (help@my_crawler.com)
UserAgent ==
    <<"m", "y", "_", "c", "r", "a", "w", "l", "e", "r", " ", "(", "h", "e",
      "l", "p", "@", "m", "y", "_", "c", "r", "a", "w", "l", "e", "r", ".",
      "c", "o", "m", ")">>

\* https://crates.io/api/v1/
CratesBaseUrl ==
    <<"h", "t", "t", "p", "s", ":", "/", "/", "c", "r", "a", "t", "e", "s",
      ".", "i", "o", "/", "a", "p", "i", "/", "v", "1", "/">>

\* crates
CratesEndpoint ==
    <<"c", "r", "a", "t", "e", "s">>

\* https://api.npms.io/v2/search/
NpmBaseUrl ==
    <<"h", "t", "t", "p", "s", ":", "/", "/", "a", "p", "i", ".", "n", "p",
      "m", "s", ".", "i", "o", "/", "v", "2", "/", "s", "e", "a", "r", "c",
      "h", "/">>

\* https://ofcncog2cu-dsn.algolia.net/1/indexes/npm-search/query
JsdelivrBaseUrl ==
    <<"h", "t", "t", "p", "s", ":", "/", "/", "o", "f", "c", "n", "c", "o",
      "g", "2", "c", "u", "-", "d", "s", "n", ".", "a", "l", "g", "o", "l",
      "i", "a", ".", "n", "e", "t", "/", "1", "/", "i", "n", "d", "e", "x",
      "e", "s", "/", "n", "p", "m", "-", "s", "e", "a", "r", "c", "h", "/",
      "q", "u", "e", "r", "y">>

\* https://index.docker.io/v1/search
DockerBaseUrl ==
    <<"h", "t", "t", "p", "s", ":", "/", "/", "i", "n", "d", "e", "x", ".",
      "d", "o", "c", "k", "e", "r", ".", "i", "o", "/", "v", "1", "/", "s",
      "e", "a", "r", "c", "h">>

\* page
K_page ==
    <<"p", "a", "g", "e">>

\* per_page
K_per_page ==
    <<"p", "e", "r", "_", "p", "a", "g", "e">>

\* q
K_q ==
    <<"q">>

\* size
K_size ==
    <<"s", "i", "z", "e">>

\* query
K_query ==
    <<"q", "u", "e", "r", "y">>

\* hitsPerPage
K_hitsPerPage ==
    <<"h", "i", "t", "s", "P", "e", "r", "P", "a", "g", "e">>

\* attributesToRetrieve
K_attributesToRetrieve ==
    <<"a", "t", "t", "r", "i", "b", "u", "t", "e", "s", "T", "o", "R", "e",
      "t", "r", "i", "e", "v", "e">>

\* attributesToHighlight
K_attributesToHighlight ==
    <<"a", "t", "t", "r", "i", "b", "u", "t", "e", "s", "T", "o", "H", "i",
      "g", "h", "l", "i", "g", "h", "t">>

\* x-algolia-agent
K_algolia_agent ==
    <<"x", "-", "a", "l", "g", "o", "l", "i", "a", "-", "a", "g", "e", "n",
      "t">>

\* x-algolia-application-id
K_algolia_application_id ==
    <<"x", "-", "a", "l", "g", "o", "l", "i", "a", "-", "a", "p", "p", "l",
      "i", "c", "a", "t", "i", "o", "n", "-", "i", "d">>

\* x-algolia-api-key
K_algolia_api_key ==
    <<"x", "-", "a", "l", "g", "o", "l", "i", "a", "-", "a", "p", "i", "-",
      "k", "e", "y">>

\* 25
V_25 ==
    <<"2", "5">>

\* name,version,description,homepage
V_attributes ==
    <<"n", "a", "m", "e", ",", "v", "e", "r", "s", "i", "o", "n", ",", "d",
      "e", "s", "c", "r", "i", "p", "t", "i", "o", "n", ",", "h", "o", "m",
      "e", "p", "a", "g", "e">>

\* Algolia for JavaScript (3.35.1); Browser (lite)
V_algolia_agent ==
    <<"A", "l", "g", "o", "l", "i", "a", " ", "f", "o", "r", " ", "J", "a",
      "v", "a", "S", "c", "r", "i", "p", "t", " ", "(", "3", ".", "3", "5",
      ".", "1", ")", ";", " ", "B", "r", "o", "w", "s", "e", "r", " ", "(",
      "l", "i", "t", "e", ")">>

\* OFCNCOG2CU
V_algolia_application_id ==
    <<"O", "F", "C", "N", "C", "O", "G", "2", "C", "U">>

\* f54e21fa3a2a0160595bb058179bfb1e
V_algolia_api_key ==
    <<"f", "5", "4", "e", "2", "1", "f", "a", "3", "a", "2", "a", "0", "1",
      "6", "0", "5", "9", "5", "b", "b", "0", "5", "8", "1", "7", "9", "b",
      "f", "b", "1", "e">>

\* User-Agent
H_User_Agent ==
    <<"U", "s", "e", "r", "-", "A", "g", "e", "n", "t">>

\* npm
S_npm ==
    <<"n", "p", "m">>

\* docker
S_docker ==
    <<"d", "o", "c", "k", "e", "r">>

\* jsdelivr
S_jsdelivr ==
    <<"j", "s", "d", "e", "l", "i", "v", "r">>

\* crates
S_crates ==
    <<"c", "r", "a", "t", "e", "s">>

\* Usage: 
UsagePrefix ==
    <<"U", "s", "a", "g", "e", ":", " ">>

\*  <source> <query>
UsageSuffix ==
    <<" ", "<", "s", "o", "u", "r", "c", "e", ">", " ", "<", "q", "u", "e",
      "r", "y", ">">>

\* Unsupported source: 
UnsupportedPrefix ==
    <<"U", "n", "s", "u", "p", "p", "o", "r", "t", "e", "d", " ", "s", "o",
      "u", "r", "c", "e", ":", " ">>

\* . Supported sources are 'npm' or 'docker'
UnsupportedSuffix ==
    <<".", " ", "S", "u", "p", "p", "o", "r", "t", "e", "d", " ", "s", "o",
      "u", "r", "c", "e", "s", " ", "a", "r", "e", " ", "'", "n", "p", "m",
      "'", " ", "o", "r", " ", "'", "d", "o", "c", "k", "e", "r", "'">>

\* items
J_items ==
    <<"i", "t", "e", "m", "s">>

\* title
J_title ==
    <<"t", "i", "t", "l", "e">>

\* subtitle
J_subtitle ==
    <<"s", "u", "b", "t", "i", "t", "l", "e">>

\* Error
J_Error ==
    <<"E", "r", "r", "o", "r">>

(***************************************************************************)
(* lib.rs: ApiClientBuilder and ApiClient                                  *)
(***************************************************************************)
\* A HashMap<String, String> is the set of its entries, <<key, value>>.
\* HashMap::new
HashMap_new == {}

\* HashMap::insert: an entry of the same key is replaced
HashMap_insert(m, k, v) == {e \in m : e[1] # k} \cup {<<k, v>>}

ApiClientBuilder_new(base_url, user_agent) ==
    [base_url |-> base_url, params |-> HashMap_new, user_agent |-> user_agent]

\* set_param keeping the value a key already has (entry().or_insert())
ApiClientBuilder_set_param_keep_first(self, key, value) ==
    [self EXCEPT !.params =
        IF \E e \in self.params : e[1] = key THEN self.params
        ELSE HashMap_insert(self.params, key, value)]

ApiClientBuilder_set_param(self, key, value) ==
    [self EXCEPT !.params = HashMap_insert(self.params, key, value)]

ApiClientBuilder_build(self) ==
    [base_url |-> self.base_url, params |-> self.params,
     user_agent |-> self.user_agent]

\* The request ApiClient::get of lib.rs sends: the parameters are the URL's
\* query pairs, the user agent is the only header set.
lib_get_request(self, endpoint) ==
    [method |-> "GET",
     url |-> self.base_url \o endpoint,
     query |-> self.params,
     headers |-> [h \in {H_User_Agent} |-> self.user_agent]]

(***************************************************************************)
(* The outcome of one HTTP exchange, as the transport reports it:          *)
(*   [kind |-> "send_error", msg]         send() failed                   *)
(*   [kind |-> "response", status, body]  a response arrived              *)
(***************************************************************************)
SendError(msg) == [kind |-> "send_error", msg |-> msg]
Response(status, body) == [kind |-> "response", status |-> status, body |-> body]

\* the message of the reqwest error for a body that is no JSON document
\* error decoding response body
DecodeErrorMsg ==
    <<"e", "r", "r", "o", "r", " ", "d", "e", "c", "o", "d", "i", "n", "g",
      " ", "r", "e", "s", "p", "o", "n", "s", "e", " ", "b", "o", "d", "y">>


\* What ApiClient::get of lib.rs returns: `?` on send, `?` on json(); the
\* status of the response is not looked at.
lib_get_result(o) ==
    IF o.kind = "send_error" THEN Err(o.msg)
    ELSE LET p == from_slice(o.body)
         IN IF p.ok THEN Ok(p.v) ELSE Err(DecodeErrorMsg)

(***************************************************************************)
(* crates.rs and npm.rs: the library's adapters                            *)
(***************************************************************************)
lib_search_crates_request(query, page, per_page) ==
    LET c0 == ApiClientBuilder_new(CratesBaseUrl, UserAgent)
        c1 == ApiClientBuilder_set_param(c0, K_page, to_string(unwrap_or(page, 1)))
        c2 == ApiClientBuilder_set_param(c1, K_per_page,
                                         to_string(unwrap_or(per_page, 10)))
        c3 == IF query.some THEN ApiClientBuilder_set_param(c2, K_q, query.v)
              ELSE c2
    IN lib_get_request(ApiClientBuilder_build(c3), CratesEndpoint)

\* search_npm of the library with the query sent as the binary sends it
lib_search_npm_request_always_q(query, size) ==
    LET c0 == ApiClientBuilder_new(NpmBaseUrl, UserAgent)
        c1 == ApiClientBuilder_set_param(c0, K_q, unwrap_or(query, <<>>))
        c2 == ApiClientBuilder_set_param(c1, K_size, to_string(unwrap_or(size, 25)))
    IN lib_get_request(ApiClientBuilder_build(c2), <<>>)

lib_search_npm_request(query, size) ==
    LET c0 == ApiClientBuilder_new(NpmBaseUrl, UserAgent)
        c1 == IF query.some THEN ApiClientBuilder_set_param(c0, K_q, query.v)
              ELSE c0
        size_value == unwrap_or(size, 25)
        c2 == ApiClientBuilder_set_param(c1, K_size, to_string(size_value))
    IN lib_get_request(ApiClientBuilder_build(c2), <<>>)

(***************************************************************************)
(* main.rs: ApiClient and the binary's adapters                            *)
(***************************************************************************)
ApiClient_new(base_url, user_agent) ==
    [base_url |-> base_url, params |-> HashMap_new, user_agent |-> user_agent]

ApiClient_set_param(self, key, value) ==
    [self EXCEPT !.params = HashMap_insert(self.params, key, value)]

get_request(self, endpoint) ==
    [method |-> "GET",
     url |-> self.base_url \o endpoint,
     query |-> self.params,
     headers |-> [h \in {H_User_Agent} |-> self.user_agent]]

\* get with error_for_status, the body text as the error's message
get_result_by_status(o) ==
    IF o.kind = "send_error" THEN Err(o.msg)
    ELSE IF o.status \notin 200..299 THEN Err(o.body)
    ELSE LET p == from_slice(o.body)
         IN IF p.ok THEN Ok(p.v) ELSE Err(DecodeErrorMsg)

\* get returning the body as text (Response::text) where a JSON value is meant
get_result_text(o) ==
    IF o.kind = "send_error" THEN Err(o.msg) ELSE Ok(JStr(o.body))

get_result(o) ==
    IF o.kind = "send_error" THEN Err(o.msg)
    ELSE LET p == from_slice(o.body)
         IN IF p.ok THEN Ok(p.v) ELSE Err(DecodeErrorMsg)

search_crates_request(query, page, per_page) ==
    LET c0 == ApiClient_new(CratesBaseUrl, UserAgent)
        c1 == ApiClient_set_param(c0, K_page, to_string(unwrap_or(page, 1)))
        c2 == ApiClient_set_param(c1, K_per_page, to_string(unwrap_or(per_page, 10)))
        c3 == ApiClient_set_param(c2, K_q, unwrap_or(query, <<>>))
    IN get_request(c3, CratesEndpoint)

search_npm_request(query, size) ==
    LET c0 == ApiClient_new(NpmBaseUrl, UserAgent)
        c1 == ApiClient_set_param(c0, K_q, unwrap_or(query, <<>>))
        c2 == ApiClient_set_param(c1, K_size, to_string(unwrap_or(size, 25)))
    IN get_request(c2, <<>>)

search_jsdelivr_request(query, page) ==
    LET c0 == ApiClient_new(JsdelivrBaseUrl, UserAgent)
        c1 == ApiClient_set_param(c0, K_query, unwrap_or(query, <<>>))
        c2 == ApiClient_set_param(c1, K_page, to_string(unwrap_or(page, 0)))
        c3 == ApiClient_set_param(c2, K_hitsPerPage, V_25)
        c4 == ApiClient_set_param(c3, K_attributesToRetrieve, V_attributes)
        c5 == ApiClient_set_param(c4, K_attributesToHighlight, <<>>)
        c6 == ApiClient_set_param(c5, K_algolia_agent, V_algolia_agent)
        c7 == ApiClient_set_param(c6, K_algolia_application_id,
                                  V_algolia_application_id)
        c8 == ApiClient_set_param(c7, K_algolia_api_key, V_algolia_api_key)
    IN get_request(c8, <<>>)

\* search_docker with the first page numbered 0, as jsdelivr's is
search_docker_request_page0(query, page) ==
    LET c0 == ApiClient_new(DockerBaseUrl, UserAgent)
        c1 == ApiClient_set_param(c0, K_q, unwrap_or(query, <<>>))
        c2 == ApiClient_set_param(c1, K_page, to_string(unwrap_or(page, 0)))
    IN get_request(c2, <<>>)

search_docker_request(query, page) ==
    LET c0 == ApiClient_new(DockerBaseUrl, UserAgent)
        c1 == ApiClient_set_param(c0, K_q, unwrap_or(query, <<>>))
        c2 == ApiClient_set_param(c1, K_page, to_string(unwrap_or(page, 1)))
    IN get_request(c2, <<>>)

\* error_response with the two texts exchanged
error_response_swapped(msg) ==
    JObj(MapInsert(EmptyMap, J_items,
        JArr(<<JObj(MapInsert(MapInsert(EmptyMap, J_title, JStr(msg)),
                              J_subtitle, JStr(J_Error)))>>)))

\* serde_json::json!({"items": [{"title": "Error", "subtitle": msg}]})
error_response(msg) ==
    JObj(MapInsert(EmptyMap, J_items,
        JArr(<<JObj(MapInsert(MapInsert(EmptyMap, J_title, JStr(J_Error)),
                              J_subtitle, JStr(msg)))>>)))

UsageLine(program) == UsagePrefix \o program \o UsageSuffix

UnsupportedLine(source) == UnsupportedPrefix \o source \o UnsupportedSuffix

(***************************************************************************)
(* The inputs tried: command lines, adapter arguments, what the network    *)
(* answers.                                                                *)
(***************************************************************************)
\* search
Program ==
    <<"s", "e", "a", "r", "c", "h">>

\* composer
S_composer ==
    <<"c", "o", "m", "p", "o", "s", "e", "r">>

\* foo
S_foo ==
    <<"f", "o", "o">>

\* tokio
Q_tokio ==
    <<"t", "o", "k", "i", "o">>

\* a "b"
Q_quoted ==
    <<"a", " ", "\"", "b", "\"">>

\* operation timed out
E_timeout ==
    <<"o", "p", "e", "r", "a", "t", "i", "o", "n", " ", "t", "i", "m", "e",
      "d", " ", "o", "u", "t">>

\* dns error: "no such host"
E_dns ==
    <<"d", "n", "s", " ", "e", "r", "r", "o", "r", ":", " ", "\"", "n", "o",
      " ", "s", "u", "c", "h", " ", "h", "o", "s", "t", "\"">>

\* {"crates":[{"name":"tokio"}]}
B_crates ==
    <<"{", "\"", "c", "r", "a", "t", "e", "s", "\"", ":", "[", "{", "\"",
      "n", "a", "m", "e", "\"", ":", "\"", "t", "o", "k", "i", "o", "\"",
      "}", "]", "}">>

\* {"hits":[{"name":"vue","d":"a\"b"}],"page":0}
B_hits ==
    <<"{", "\"", "h", "i", "t", "s", "\"", ":", "[", "{", "\"", "n", "a",
      "m", "e", "\"", ":", "\"", "v", "u", "e", "\"", ",", "\"", "d", "\"",
      ":", "\"", "a", "\\", "\"", "b", "\"", "}", "]", ",", "\"", "p", "a",
      "g", "e", "\"", ":", "0", "}">>

\* {"message":"Index not allowed","status":403}
B_nohits ==
    <<"{", "\"", "m", "e", "s", "s", "a", "g", "e", "\"", ":", "\"", "I",
      "n", "d", "e", "x", " ", "n", "o", "t", " ", "a", "l", "l", "o", "w",
      "e", "d", "\"", ",", "\"", "s", "t", "a", "t", "u", "s", "\"", ":",
      "4", "0", "3", "}">>

\* Not Found
B_text ==
    <<"N", "o", "t", " ", "F", "o", "u", "n", "d">>

\* [1,-20,true,null,{}]
B_array ==
    <<"[", "1", ",", "-", "2", "0", ",", "t", "r", "u", "e", ",", "n", "u",
      "l", "l", ",", "{", "}", "]">>


SourceNames == {S_npm, S_docker, S_jsdelivr, S_crates, S_composer, S_foo}

Queries == {Q_tokio, Q_quoted, <<>>}

\* the largest number of words on the command line, the program's name included
MaxArgs == 4

\* the words after the query, which main does not read
RECURSIVE ExtraWords(_)
ExtraWords(n) == IF n = 0 THEN <<>> ELSE <<Q_tokio>> \o ExtraWords(n - 1)

CommandLines ==
    {<<Program>>}
    \cup {<<Program, s>> : s \in SourceNames}
    \cup {<<Program, s, q>> \o ExtraWords(n) :
            s \in SourceNames, q \in Queries, n \in 0..(MaxArgs - 3)}

TransportErrors == {E_timeout, E_dns}

Statuses == {200, 404, 500}

Bodies == {B_crates, B_hits, B_nohits, B_text, B_array, <<>>}

Outcomes ==
    {SendError(e) : e \in TransportErrors}
    \cup {Response(s, b) : s \in Statuses, b \in Bodies}

QueryArgs == {None, Some(Q_tokio), Some(<<>>)}
PageArgs == {None, Some(0), Some(3)}
PerPageArgs == {None, Some(25), Some(100)}
SizeArgs == {None, Some(5)}

(***************************************************************************)
(* to_json.rs and main.rs: write_json_to_file.  A file system is a         *)
(* function from paths to Option(text): None where no file exists.         *)
(***************************************************************************)
\* the file opened for writing without truncation
File_create_no_truncate(fsys, file_name) ==
    [fsys EXCEPT ![file_name] = IF fsys[file_name].some THEN fsys[file_name]
                                ELSE Some(<<>>)]

\* File::create: the file is created, or truncated if it exists
File_create(fsys, file_name) == [fsys EXCEPT ![file_name] = Some(<<>>)]

\* write_all on a handle at offset 0: the bytes replace the file's from its start
File_write_all(fsys, file_name, bytes) ==
    LET old == fsys[file_name].v
        rest == IF Len(old) > Len(bytes)
                THEN SubSeq(old, Len(bytes) + 1, Len(old)) ELSE <<>>
    IN [fsys EXCEPT ![file_name] = Some(bytes \o rest)]

\* permission denied
IoErrorMsg ==
    <<"p", "e", "r", "m", "i", "s", "s", "i", "o", "n", " ", "d", "e", "n",
      "i", "e", "d">>


\* What the operating system does to one call, of which n matters only to a
\* failing write:
\*   [kind |-> "create_fails"]       File::create returns an error
\*   [kind |-> "write_fails", n]     write_all fails after n bytes
\*   [kind |-> "ok"]                 both succeed
IoOutcomes(json_string) ==
    {[kind |-> "create_fails", n |-> 0], [kind |-> "ok", n |-> 0]}
    \cup {[kind |-> "write_fails", n |-> n] :
            n \in {k \in 0..MaxPartial : k < Len(json_string)}}

\* to_json.rs: the file system and the value returned, [fs, ret]
lib_write_json_to_file(fsys, data, file_name, io) ==
    LET json_string == to_string_pretty(data)
    IN IF io.kind = "create_fails" THEN [fs |-> fsys, ret |-> Err(IoErrorMsg)]
       ELSE IF io.kind = "write_fails"
            THEN [fs |-> File_write_all(File_create(fsys, file_name), file_name,
                                        SubSeq(json_string, 1, io.n)),
                  ret |-> Err(IoErrorMsg)]
       ELSE [fs |-> File_write_all(File_create(fsys, file_name), file_name,
                                   json_string),
             ret |-> Ok(<<>>)]

\* main.rs: the same function, written in one expression
write_json_to_file(fsys, data, file_name, io) ==
    LET json_string == to_string_pretty(data)
    IN IF io.kind = "create_fails" THEN [fs |-> fsys, ret |-> Err(IoErrorMsg)]
       ELSE IF io.kind = "write_fails"
            THEN [fs |-> File_write_all(File_create(fsys, file_name), file_name,
                                        SubSeq(json_string, 1, io.n)),
                  ret |-> Err(IoErrorMsg)]
       ELSE [fs |-> File_write_all(File_create(fsys, file_name), file_name,
                                   json_string),
             ret |-> Ok(<<>>)]

Paths == {"out.json", "other.json"}

\* what a file may hold before the first call
OldContent == B_crates

JsonData ==
    {JNull, JStr(Q_quoted),
     JObj(MapInsert(EmptyMap, J_items, JArr(<<JNum(-7), JBool(FALSE)>>)))}

(***************************************************************************)
(* State.                                                                  *)
(***************************************************************************)
VARIABLES
    args,       \* the command line, the program's name first
    pc,         \* where the run is
    called,     \* the adapter call made: Option([fn, lib, query, page, per_page, size])
    requests,   \* the HTTP requests sent so far, in order
    outcome,    \* Option(what the transport reported)
    result,     \* Option(the Result the adapter returned)
    stdout,     \* the lines printed to standard output
    stderr,     \* the lines printed to standard error
    exit_code,  \* Option(the exit status of the process)
    builder,    \* Option([kind, obj]): the builder or client being set up
    calls,      \* the set_param calls made on it, <<key, value>>, in order
    fs,         \* the file system
    lastWrite   \* Option([fn, data, file_name, existed, shrank, ret]): the last
                \* write_json_to_file, whether the file existed before it and
                \* whether the call left it shorter than it was

runVars == <<args, pc, called, requests, outcome, result, stdout, stderr, exit_code>>
builderVars == <<builder, calls>>
fileVars == <<fs, lastWrite>>
vars == <<args, pc, called, requests, outcome, result, stdout, stderr, exit_code,
          builder, calls, fs, lastWrite>>

NoRun ==
    /\ called = None /\ requests = <<>> /\ outcome = None /\ result = None
    /\ stdout = <<>> /\ stderr = <<>> /\ exit_code = None

NoBuilder == builder = None /\ calls = <<>>

NoFiles == fs = [p \in Paths |-> None] /\ lastWrite = None

Call(fn, lib, query, page, per_page, size) ==
    [fn |-> fn, lib |-> lib, query |-> query, page |-> page,
     per_page |-> per_page, size |-> size]

\* an adapter is entered and runs up to its await: one request is sent
Invoke(call, request) ==
    /\ called' = Some(call)
    /\ requests' = Append(requests, request)
    /\ pc' = "awaiting"

(***************************************************************************)
(* main.rs: main.  The run stops at the adapter's await and goes on when   *)
(* the transport reports.                                                  *)
(***************************************************************************)
Init == args \in CommandLines /\ pc = "start" /\ NoRun /\ NoBuilder /\ NoFiles

\* the docker arm calling the npm adapter
MainDocker_callsNpm ==
    /\ pc = "start"
    /\ Len(args) >= 3
    /\ args[2] = S_docker
    /\ Invoke(Call("search_npm", FALSE, Some(args[3]), None, None, None),
              search_npm_request(Some(args[3]), None))
    /\ UNCHANGED <<args, outcome, result, stdout, stderr, exit_code>>
    /\ UNCHANGED <<builderVars, fileVars>>

\* the diagnostic printed with println! instead of eprintln!
MainUnsupported_toStdout ==
    /\ pc = "start"
    /\ Len(args) >= 3
    /\ args[2] \notin {S_npm, S_docker, S_jsdelivr, S_crates}
    /\ stdout' = Append(stdout, UnsupportedLine(args[2]))
    /\ exit_code' = Some(0)
    /\ pc' = "done"
    /\ UNCHANGED <<args, called, requests, outcome, result, stderr>>
    /\ UNCHANGED <<builderVars, fileVars>>

MainUsage ==
    /\ pc = "start"
    /\ Len(args) < 3
    /\ stderr' = Append(stderr, UsageLine(args[1]))
    /\ exit_code' = Some(0)
    /\ pc' = "done"
    /\ UNCHANGED <<args, called, requests, outcome, result, stdout>>
    /\ UNCHANGED <<builderVars, fileVars>>

MainNpm ==
    /\ pc = "start"
    /\ Len(args) >= 3
    /\ args[2] = S_npm
    /\ Invoke(Call("search_npm", FALSE, Some(args[3]), None, None, None),
              search_npm_request(Some(args[3]), None))
    /\ UNCHANGED <<args, outcome, result, stdout, stderr, exit_code>>
    /\ UNCHANGED <<builderVars, fileVars>>

MainDocker ==
    /\ pc = "start"
    /\ Len(args) >= 3
    /\ args[2] = S_docker
    /\ Invoke(Call("search_docker", FALSE, Some(args[3]), None, None, None),
              search_docker_request(Some(args[3]), None))
    /\ UNCHANGED <<args, outcome, result, stdout, stderr, exit_code>>
    /\ UNCHANGED <<builderVars, fileVars>>

MainJsdelivr ==
    /\ pc = "start"
    /\ Len(args) >= 3
    /\ args[2] = S_jsdelivr
    /\ Invoke(Call("search_jsdelivr", FALSE, Some(args[3]), None, None, None),
              search_jsdelivr_request(Some(args[3]), None))
    /\ UNCHANGED <<args, outcome, result, stdout, stderr, exit_code>>
    /\ UNCHANGED <<builderVars, fileVars>>

MainCrates ==
    /\ pc = "start"
    /\ Len(args) >= 3
    /\ args[2] = S_crates
    /\ Invoke(Call("search_crates", FALSE, Some(args[3]), None, None, None),
              search_crates_request(Some(args[3]), None, None))
    /\ UNCHANGED <<args, outcome, result, stdout, stderr, exit_code>>
    /\ UNCHANGED <<builderVars, fileVars>>

MainUnsupported ==
    /\ pc = "start"
    /\ Len(args) >= 3
    /\ args[2] \notin {S_npm, S_docker, S_jsdelivr, S_crates}
    /\ stderr' = Append(stderr, UnsupportedLine(args[2]))
    /\ exit_code' = Some(0)
    /\ pc' = "done"
    /\ UNCHANGED <<args, called, requests, outcome, result, stdout>>
    /\ UNCHANGED <<builderVars, fileVars>>

\* what main prints for the adapter's result
Printed(r) ==
    IF r.ok THEN to_string_pretty(r.v)
    ELSE to_string_pretty(error_response(r.e))

\* the transport reports, get returns, the adapter returns, main prints
MainResumes ==
    /\ pc = "awaiting"
    /\ \E o \in Outcomes :
          /\ outcome' = Some(o)
          /\ result' = Some(get_result(o))
          /\ stdout' = Append(stdout, Printed(get_result(o)))
    /\ exit_code' = Some(0)
    /\ pc' = "done"
    /\ UNCHANGED <<args, called, requests, stderr>>
    /\ UNCHANGED <<builderVars, fileVars>>

Next ==
    \/ MainUsage
    \/ MainNpm
    \/ MainDocker
    \/ MainJsdelivr
    \/ MainCrates
    \/ MainUnsupported
    \/ MainResumes

Spec == Init /\ [][Next]_vars

(***************************************************************************)
(* The adapters called directly, with any arguments.                       *)
(***************************************************************************)
AdapterInit == args = <<>> /\ pc = "idle" /\ NoRun /\ NoBuilder /\ NoFiles

CallLibSearchCrates ==
    /\ pc = "idle"
    /\ \E q \in QueryArgs, p \in PageArgs, pp \in PerPageArgs :
          Invoke(Call("search_crates", TRUE, q, p, pp, None),
                 lib_search_crates_request(q, p, pp))
    /\ UNCHANGED <<args, outcome, result, stdout, stderr, exit_code>>
    /\ UNCHANGED <<builderVars, fileVars>>

CallLibSearchNpm ==
    /\ pc = "idle"
    /\ \E q \in QueryArgs, s \in SizeArgs :
          Invoke(Call("search_npm", TRUE, q, None, None, s),
                 lib_search_npm_request(q, s))
    /\ UNCHANGED <<args, outcome, result, stdout, stderr, exit_code>>
    /\ UNCHANGED <<builderVars, fileVars>>

CallSearchCrates ==
    /\ pc = "idle"
    /\ \E q \in QueryArgs, p \in PageArgs, pp \in PerPageArgs :
          Invoke(Call("search_crates", FALSE, q, p, pp, None),
                 search_crates_request(q, p, pp))
    /\ UNCHANGED <<args, outcome, result, stdout, stderr, exit_code>>
    /\ UNCHANGED <<builderVars, fileVars>>

CallSearchNpm ==
    /\ pc = "idle"
    /\ \E q \in QueryArgs, s \in SizeArgs :
          Invoke(Call("search_npm", FALSE, q, None, None, s),
                 search_npm_request(q, s))
    /\ UNCHANGED <<args, outcome, result, stdout, stderr, exit_code>>
    /\ UNCHANGED <<builderVars, fileVars>>

CallSearchJsdelivr ==
    /\ pc = "idle"
    /\ \E q \in QueryArgs, p \in PageArgs :
          Invoke(Call("search_jsdelivr", FALSE, q, p, None, None),
                 search_jsdelivr_request(q, p))
    /\ UNCHANGED <<args, outcome, result, stdout, stderr, exit_code>>
    /\ UNCHANGED <<builderVars, fileVars>>

CallSearchDocker ==
    /\ pc = "idle"
    /\ \E q \in QueryArgs, p \in PageArgs :
          Invoke(Call("search_docker", FALSE, q, p, None, None),
                 search_docker_request(q, p))
    /\ UNCHANGED <<args, outcome, result, stdout, stderr, exit_code>>
    /\ UNCHANGED <<builderVars, fileVars>>

\* the adapter sending the request once more when the first attempt failed
AdapterReturns_retries ==
    /\ pc = "awaiting"
    /\ \E o \in Outcomes :
          /\ outcome' = Some(o)
          /\ result' = Some(IF called.v.lib THEN lib_get_result(o)
                            ELSE get_result(o))
          /\ requests' = IF o.kind = "send_error" /\ Len(requests) < 2
                         THEN Append(requests, requests[1]) ELSE requests
    /\ pc' = "returned"
    /\ UNCHANGED <<args, called, stdout, stderr, exit_code>>
    /\ UNCHANGED <<builderVars, fileVars>>

\* the transport reports, get returns and the adapter returns get's result
AdapterReturns ==
    /\ pc = "awaiting"
    /\ \E o \in Outcomes :
          /\ outcome' = Some(o)
          /\ result' = Some(IF called.v.lib THEN lib_get_result(o)
                            ELSE get_result(o))
    /\ pc' = "returned"
    /\ UNCHANGED <<args, called, requests, stdout, stderr, exit_code>>
    /\ UNCHANGED <<builderVars, fileVars>>

AdapterNext ==
    \/ CallLibSearchCrates
    \/ CallLibSearchNpm
    \/ CallSearchCrates
    \/ CallSearchNpm
    \/ CallSearchJsdelivr
    \/ CallSearchDocker
    \/ AdapterReturns

AdapterSpec == AdapterInit /\ [][AdapterNext]_vars

(***************************************************************************)
(* One builder (lib.rs) or client (main.rs) and the calls made on it.      *)
(***************************************************************************)
ParamKeys == {K_q, K_page, K_size}

ParamValues == {<<>>, V_25, Q_tokio}

BuilderInit == args = <<>> /\ pc = "idle" /\ NoRun /\ NoBuilder /\ NoFiles

NewBuilder ==
    /\ builder = None
    /\ builder' = Some([kind |-> "ApiClientBuilder",
                        obj |-> ApiClientBuilder_new(CratesBaseUrl, UserAgent)])
    /\ UNCHANGED <<calls, runVars, fileVars>>

NewClient ==
    /\ builder = None
    /\ builder' = Some([kind |-> "ApiClient",
                        obj |-> ApiClient_new(NpmBaseUrl, UserAgent)])
    /\ UNCHANGED <<calls, runVars, fileVars>>

BuilderSetParam ==
    /\ builder.some
    /\ builder.v.kind = "ApiClientBuilder"
    /\ Len(calls) < MaxCalls
    /\ \E k \in ParamKeys, v \in ParamValues :
          /\ builder' = Some([builder.v EXCEPT
                                !.obj = ApiClientBuilder_set_param(@, k, v)])
          /\ calls' = Append(calls, <<k, v>>)
    /\ UNCHANGED <<runVars, fileVars>>

ClientSetParam ==
    /\ builder.some
    /\ builder.v.kind = "ApiClient"
    /\ Len(calls) < MaxCalls
    /\ \E k \in ParamKeys, v \in ParamValues :
          /\ builder' = Some([builder.v EXCEPT
                                !.obj = ApiClient_set_param(@, k, v)])
          /\ calls' = Append(calls, <<k, v>>)
    /\ UNCHANGED <<runVars, fileVars>>

\* build consumes the builder: what is left is a client of lib.rs, which has
\* no set_param
BuilderBuild ==
    /\ builder.some
    /\ builder.v.kind = "ApiClientBuilder"
    /\ builder' = Some([kind |-> "built",
                        obj |-> ApiClientBuilder_build(builder.v.obj)])
    /\ UNCHANGED <<calls, runVars, fileVars>>

BuilderNext ==
    \/ NewBuilder
    \/ NewClient
    \/ BuilderSetParam
    \/ ClientSetParam
    \/ BuilderBuild

BuilderSpec == BuilderInit /\ [][BuilderNext]_vars

(***************************************************************************)
(* write_json_to_file on a file system.                                    *)
(***************************************************************************)
\* the file exists in both file systems and is shorter in the second
Shrinks(before, file_name, after) ==
    /\ before[file_name].some
    /\ after[file_name].some
    /\ Len(after[file_name].v) < Len(before[file_name].v)

FileInit ==
    /\ args = <<>> /\ pc = "idle" /\ NoRun /\ NoBuilder
    /\ fs \in [Paths -> {None, Some(OldContent)}]
    /\ lastWrite = None

LibWriteJsonToFile ==
    /\ \E data \in JsonData, file_name \in Paths :
         \E io \in IoOutcomes(to_string_pretty(data)) :
            LET w == lib_write_json_to_file(fs, data, file_name, io)
            IN /\ fs' = w.fs
               /\ lastWrite' = Some([fn |-> "lib", data |-> data,
                                     file_name |-> file_name,
                                     existed |-> fs[file_name].some,
                                     shrank |-> Shrinks(fs, file_name, w.fs),
                                     ret |-> w.ret])
    /\ UNCHANGED <<runVars, builderVars>>

WriteJsonToFile ==
    /\ \E data \in JsonData, file_name \in Paths :
         \E io \in IoOutcomes(to_string_pretty(data)) :
            LET w == write_json_to_file(fs, data, file_name, io)
            IN /\ fs' = w.fs
               /\ lastWrite' = Some([fn |-> "main", data |-> data,
                                     file_name |-> file_name,
                                     existed |-> fs[file_name].some,
                                     shrank |-> Shrinks(fs, file_name, w.fs),
                                     ret |-> w.ret])
    /\ UNCHANGED <<runVars, builderVars>>

FileNext ==
    \/ LibWriteJsonToFile
    \/ WriteJsonToFile

FileSpec == FileInit /\ [][FileNext]_vars

(***************************************************************************)
(* Helpers of the properties.                                              *)
(***************************************************************************)
HasParam(m, k) == \E e \in m : e[1] = k

EntriesOf(m, k) == {e \in m : e[1] = k}

\* the JSON value {"items":[{"title":"Error","subtitle":msg}]}, written out
EnvelopeValue(msg) ==
    [t |-> "obj",
     m |-> [i \in {J_items} |->
              [t |-> "arr",
               a |-> <<[t |-> "obj",
                        m |-> [k \in {J_title, J_subtitle} |->
                                 IF k = J_title THEN [t |-> "str", s |-> J_Error]
                                 ELSE [t |-> "str", s |-> msg]]]>>]]]

\* the text is a JSON document in its pretty-printed form
IsPretty(text) ==
    /\ from_slice(text).ok
    /\ text = to_string_pretty(from_slice(text).v)

\* the transport failed, or the body that arrived is no JSON document
Failed(o) == o.kind = "send_error" \/ ~from_slice(o.body).ok

SpecSources == {S_npm, S_docker, S_jsdelivr, S_crates, S_composer}

CodeSources == {S_npm, S_docker, S_jsdelivr, S_crates}

\* the adapter, the URL and the key of the search text that belong to a source
AdapterOf(s) ==
    CASE s = S_npm -> [fn |-> "search_npm", url |-> NpmBaseUrl, key |-> K_q]
      [] s = S_docker -> [fn |-> "search_docker", url |-> DockerBaseUrl, key |-> K_q]
      [] s = S_jsdelivr ->
            [fn |-> "search_jsdelivr", url |-> JsdelivrBaseUrl, key |-> K_query]
      [] s = S_crates ->
            [fn |-> "search_crates", url |-> CratesBaseUrl \o CratesEndpoint,
             key |-> K_q]
      [] OTHER -> [fn |-> "search_composer", url |-> <<>>, key |-> K_q]

\* the run went to the adapter of source s, and to no other, with the query
DispatchedTo(s) ==
    /\ called.some
    /\ called.v.fn = AdapterOf(s).fn
    /\ called.v.query = Some(args[3])
    /\ Len(requests) = 1
    /\ requests[1].url = AdapterOf(s).url
    /\ <<AdapterOf(s).key, args[3]>> \in requests[1].query
    /\ stderr = <<>>

(***************************************************************************)
(* C1.  Whenever the adapter main called returns an error (the transport   *)
(* failed or the body was no JSON), the finished run has printed exactly   *)
(* one document to standard output, pretty-printed, which parses to        *)
(* {"items":[{"title":"Error","subtitle":<the error's message>}]}, has     *)
(* printed nothing to standard error and has exit status 0.                *)
(***************************************************************************)
C1_ErrorEnvelopePrinted ==
    (pc = "done" /\ outcome.some /\ Failed(outcome.v)) =>
        /\ result.some /\ ~result.v.ok
        /\ (outcome.v.kind = "send_error" => result.v.e = outcome.v.msg)
        /\ Len(stdout) = 1
        /\ from_slice(stdout[1]) = [ok |-> TRUE, v |-> EnvelopeValue(result.v.e)]
        /\ IsPretty(stdout[1])
        /\ stderr = <<>>
        /\ exit_code = Some(0)

C1_Witness ==
    /\ pc = "done"
    /\ called = Some(Call("search_npm", FALSE, Some(Q_tokio), None, None, None))
    /\ outcome = Some(SendError(E_dns))
    /\ Len(stdout) = 1

C3_NoSourceSelected ==
    (Len(args) < 3 \/ args[2] \notin SpecSources) =>
        /\ requests = <<>>
        /\ stdout = <<>>
        /\ called = None
        /\ pc \in {"start", "done"}
        /\ (pc = "start" => stderr = <<>> /\ exit_code = None)
        /\ (pc = "done" => Len(stderr) = 1 /\ exit_code = Some(0))

C3_Witness ==
    /\ pc = "done"
    /\ Len(args) >= 3
    /\ args[2] = S_foo
    /\ stderr = <<UnsupportedLine(S_foo)>>
    /\ exit_code = Some(0)

(***************************************************************************)
(* C8.  Whenever the adapter main called succeeds, the finished run has    *)
(* printed exactly one pretty-printed document to standard output, which   *)
(* parses to the                                                           *)
(* value the adapter returned (for crates, npm and docker the value of the *)
(* whole response body), nothing to standard error, and has exit status 0; *)
(* every finished run that called an adapter has printed exactly one       *)
(* document, the result or the error envelope.                             *)
(***************************************************************************)
C8_ResultPrinted ==
    /\ (pc = "done" /\ outcome.some /\ ~Failed(outcome.v)) =>
            /\ result.some /\ result.v.ok
            /\ Len(stdout) = 1
            /\ from_slice(stdout[1]) = [ok |-> TRUE, v |-> result.v.v]
            /\ IsPretty(stdout[1])
            /\ (called.v.fn \in {"search_crates", "search_npm", "search_docker"}
                    => result.v.v = from_slice(outcome.v.body).v)
            /\ stderr = <<>>
            /\ exit_code = Some(0)
    /\ (pc = "done" /\ called.some) =>
            /\ Len(stdout) = 1
            /\ \/ result.v.ok
                  /\ from_slice(stdout[1]) = [ok |-> TRUE, v |-> result.v.v]
               \/ ~result.v.ok
                  /\ from_slice(stdout[1])
                        = [ok |-> TRUE, v |-> EnvelopeValue(result.v.e)]

C8_Witness ==
    /\ pc = "done"
    /\ args = <<Program, S_crates, Q_tokio>>
    /\ outcome = Some(Response(200, B_crates))
    /\ Len(stdout) = 1
    /\ from_slice(stdout[1]).ok

(***************************************************************************)
(* Helpers of the properties about the adapters.                           *)
(***************************************************************************)
\* the adapter call made is fn of the library (lib) or of the binary
Is(fn, lib) == called.some /\ called.v.fn = fn /\ called.v.lib = lib

V_0 == <<"0">>
V_1 == <<"1">>
V_10 == <<"1", "0">>

\* the request the other implementation of the same adapter builds from the
\* arguments of the call made
Counterpart(c) ==
    IF c.fn = "search_crates"
    THEN IF c.lib THEN search_crates_request(c.query, c.page, c.per_page)
         ELSE lib_search_crates_request(c.query, c.page, c.per_page)
    ELSE IF c.lib THEN search_npm_request(c.query, c.size)
         ELSE lib_search_npm_request(c.query, c.size)

HasCounterpart(c) == c.fn \in {"search_crates", "search_npm"}

AlgoliaKeys == {K_algolia_agent, K_algolia_application_id, K_algolia_api_key}

(***************************************************************************)
(* C4 as stated.  An adapter called without its optional pagination or     *)
(* size argument sends the default of the adapter table: crates page=1 and *)
(* per_page=25, npm size=25, jsdelivr page=0 and hitsPerPage=25, docker    *)
(* page=1, in the library's adapters and in the binary's.                  *)
(***************************************************************************)
C4_TableDefaults ==
    called.some =>
        LET c == called.v
            sent == requests[1].query
        IN /\ (c.fn = "search_crates" /\ ~c.page.some) => <<K_page, V_1>> \in sent
           /\ (c.fn = "search_crates" /\ ~c.per_page.some)
                    => <<K_per_page, V_25>> \in sent
           /\ (c.fn = "search_npm" /\ ~c.size.some) => <<K_size, V_25>> \in sent
           /\ (c.fn = "search_jsdelivr" /\ ~c.page.some) => <<K_page, V_0>> \in sent
           /\ (c.fn = "search_jsdelivr") => <<K_hitsPerPage, V_25>> \in sent
           /\ (c.fn = "search_docker" /\ ~c.page.some) => <<K_page, V_1>> \in sent

(***************************************************************************)
(* C4, amended.  An adapter called without its optional pagination or size *)
(* argument sends: crates page=1 and per_page=10, npm size=25, jsdelivr    *)
(* page=0 and hitsPerPage=25, docker page=1, each under exactly one entry  *)
(* of that key, in the library's adapters (crates, npm) and in the         *)
(* binary's; an argument that is given is sent as its decimal text.        *)
(***************************************************************************)
C4_CodeDefaults ==
    called.some =>
        LET c == called.v
            sent == requests[1].query
        IN /\ c.fn = "search_crates" =>
                /\ EntriesOf(sent, K_page)
                      = {<<K_page, IF c.page.some THEN to_string(c.page.v) ELSE V_1>>}
                /\ EntriesOf(sent, K_per_page)
                      = {<<K_per_page,
                           IF c.per_page.some THEN to_string(c.per_page.v) ELSE V_10>>}
           /\ c.fn = "search_npm" =>
                EntriesOf(sent, K_size)
                   = {<<K_size, IF c.size.some THEN to_string(c.size.v) ELSE V_25>>}
           /\ c.fn = "search_jsdelivr" =>
                /\ EntriesOf(sent, K_page)
                      = {<<K_page, IF c.page.some THEN to_string(c.page.v) ELSE V_0>>}
                /\ EntriesOf(sent, K_hitsPerPage) = {<<K_hitsPerPage, V_25>>}
           /\ c.fn = "search_docker" =>
                EntriesOf(sent, K_page)
                   = {<<K_page, IF c.page.some THEN to_string(c.page.v) ELSE V_1>>}

C4_Witness ==
    /\ Is("search_crates", TRUE)
    /\ called.v.page = None
    /\ called.v.per_page = None
    /\ <<K_per_page, V_10>> \in requests[1].query

(***************************************************************************)
(* C6 as stated.  For the jsdelivr adapter a response with a status        *)
(* outside 200..299 yields an error whose message is the body text, and a  *)
(* response with a status inside yields the value of the field hits of the *)
(* body, the empty array when there is no such field.                      *)
(***************************************************************************)
HitsOf(v) ==
    IF v.t = "obj" /\ <<"h", "i", "t", "s">> \in DOMAIN v.m
    THEN v.m[<<"h", "i", "t", "s">>]
    ELSE [t |-> "arr", a |-> <<>>]

C10_SameRequest ==
    (called.some /\ HasCounterpart(called.v)) =>
        /\ requests[1].url = Counterpart(called.v).url
        /\ requests[1].query = Counterpart(called.v).query

(***************************************************************************)
(* C10, amended.  The library's search_crates and the binary's, and the    *)
(* library's search_npm and the binary's, send the same URL for every      *)
(* combination of arguments and the same set of query pairs whenever the   *)
(* query is present; with the query absent they differ in the key q alone: *)
(* the binary's adapter sends q with the empty text, the library's sends   *)
(* no entry for q.                                                         *)
(***************************************************************************)
C10_SameRequestButAbsentQuery ==
    (called.some /\ HasCounterpart(called.v)) =>
        LET mine == requests[1]
            other == Counterpart(called.v)
            ofLib == IF called.v.lib THEN mine ELSE other
            ofBin == IF called.v.lib THEN other ELSE mine
        IN /\ mine.url = other.url
           /\ mine.method = other.method
           /\ mine.headers = other.headers
           /\ called.v.query.some => mine.query = other.query
           /\ ~called.v.query.some =>
                /\ ~HasParam(ofLib.query, K_q)
                /\ ofBin.query = ofLib.query \cup {<<K_q, <<>>>>}

C10_Witness ==
    /\ Is("search_npm", TRUE)
    /\ called.v.query = None
    /\ called.v.size = Some(5)
    /\ requests[1].query = {<<K_size, <<"5">>>>}

(***************************************************************************)
(* C5.  After any sequence of set_param calls on one builder or client the *)
(* parameters hold exactly one entry for each key that was set and none    *)
(* for any other, and the value of each key is that of the last call made  *)
(* with it.                                                                *)
(***************************************************************************)
KeysSet == {calls[i][1] : i \in 1..Len(calls)}

LastCall(k) ==
    CHOOSE i \in 1..Len(calls) :
        calls[i][1] = k /\ \A j \in (i + 1)..Len(calls) : calls[j][1] # k

C5_LastWriteWins ==
    builder.some =>
        LET params == builder.v.obj.params
        IN /\ {e[1] : e \in params} = KeysSet
           /\ \A k \in KeysSet :
                EntriesOf(params, k) = {<<k, calls[LastCall(k)][2]>>}

C5_Witness ==
    /\ builder.some
    /\ builder.v.kind = "ApiClientBuilder"
    /\ calls = <<<<K_q, Q_tokio>>, <<K_page, V_25>>, <<K_q, <<>>>>>>
    /\ builder.v.obj.params = {<<K_q, <<>>>>, <<K_page, V_25>>}

(***************************************************************************)
(* C9.  After write_json_to_file has returned Ok, the file at the path     *)
(* holds a document that parses to a value equal to the one written,       *)
(* whether or not a file was there before; nothing of what a file held     *)
(* before remains.                                                         *)
(***************************************************************************)
C9_RoundTrip ==
    (lastWrite.some /\ lastWrite.v.ret.ok) =>
        /\ fs[lastWrite.v.file_name].some
        /\ from_slice(fs[lastWrite.v.file_name].v)
              = [ok |-> TRUE, v |-> lastWrite.v.data]

C9_Witness ==
    /\ lastWrite.some
    /\ lastWrite.v.fn = "lib"
    /\ lastWrite.v.ret.ok
    /\ lastWrite.v.existed
    /\ lastWrite.v.shrank
    /\ lastWrite.v.data = JNull
    /\ fs[lastWrite.v.file_name] = Some(<<"n", "u", "l", "l">>)

====
